---- MODULE Spec2Model ----
(***************************************************************************)
(* A model of examples/tf/ReLU Layers.ipynb: the ReluLayer Keras layer     *)
(* that computes z = max(Wx + b, 0) as the optimum of a convex program,    *)
(* the construction of the model and of the synthetic data, and the        *)
(* training loop.                                                          *)
(*                                                                         *)
(* The specifications share the variables:                                 *)
(*   SpecLayer    one ReluLayer is constructed and called on one input;    *)
(*                tensors carry integer values from bounded sets.          *)
(*   Spec         the training cell on arbitrary data; tensors are         *)
(*                abstracted to their shapes, trainable tensors to the     *)
(*                number of updates applied, losses to a few levels.       *)
(*   SpecFair     Spec with the progress of a sequential program.          *)
(*   SpecRecorded the training cell of the run whose output is recorded.   *)
(*   SpecSeed     two executions of the construction cell, side by side,   *)
(*                with TensorFlow's global random seed.                    *)
(***************************************************************************)
EXTENDS Integers, Sequences, FiniteSets, TLC

VARIABLES
    \* ---- SpecLayer ----
    layer,      \* the constructed ReluLayer: input_dim, output_dim, W, b
    xin,        \* the input tensor handed to call
    ret,        \* what call did: status, value, and what the adapter received
    \* ---- Spec (training cell) ----
    pc,         \* position in the training cell
    k,          \* index into model.layers of the layer being run
    iter,       \* completed iterations of the for loop
    h,          \* shape of the activation flowing through the model
    solves,     \* convex programs solved so far
    backwards,  \* backward (implicit differentiation) calls so far
    lines,      \* loss lines printed so far
    loss,       \* last loss printed
    firstLoss,  \* first loss printed
    version,    \* trainable tensor -> number of updates applied to it
    trace,      \* steps of the current iteration, in execution order
    dataset,    \* "any": arbitrary data; "recorded": the run whose output is recorded
    raised,     \* an exception has been raised in the training cell
    \* ---- SpecSeed ----
    rng,        \* run -> state of TensorFlow's global generator
    spc,        \* run -> statements of the construction cell executed
    drawn       \* run -> tensor name -> the random draw that filled it

layerVars == <<layer, xin, ret>>
trainVars == <<pc, k, iter, h, solves, backwards, lines, loss, firstLoss,
               version, trace, dataset, raised>>
seedVars  == <<rng, spc, drawn>>
vars == <<layer, xin, ret, pc, k, iter, h, solves, backwards, lines, loss,
          firstLoss, version, trace, dataset, raised, rng, spc, drawn>>

None == "none"

(***************************************************************************)
(* Bounds of the model.                                                    *)
(***************************************************************************)
\* entries of W and b range over -MaxVal..MaxVal
MaxVal == 1
\* an entry of an input x is -1 or MaxX
MaxX == 2
\* a rank-2 input has 1..MaxBatch rows
MaxBatch == 2
\* the (input_dim, output_dim) pairs a layer is constructed with
Dims == {<<1, 1>>, <<2, 1>>, <<1, 2>>}

WVals == (0 - MaxVal)..MaxVal
XVals == {0 - 1, MaxX}

(***************************************************************************)
(* Tensors: a rank-1 tensor is a sequence of integers, a rank-2 tensor a   *)
(* non-empty sequence of rank-1 tensors of equal length.                   *)
(***************************************************************************)
Vec(n, S) == [1..n -> S]
Mat(r, c, S) == [1..r -> [1..c -> S]]

Tensor1(v) == [rank |-> 1, v |-> v]
Tensor2(rows) == [rank |-> 2, v |-> rows]

rank(t) == t.rank
shape(t) == IF t.rank = 1 THEN <<Len(t.v)>> ELSE <<Len(t.v), Len(t.v[1])>>

RECURSIVE SumTo(_, _)
SumTo(f, n) == IF n = 0 THEN 0 ELSE f[n] + SumTo(f, n - 1)

\* M @ x
MatVec(M, x) == [i \in 1..Len(M) |-> SumTo([j \in 1..Len(x) |-> M[i][j] * x[j]], Len(x))]

\* cp.sum_squares(v)
sum_squares(v) == SumTo([i \in 1..Len(v) |-> v[i] * v[i]], Len(v))

Max(a, b) == IF a >= b THEN a ELSE b

\* the markdown's z = max(Wx + b, 0), elementwise
Relu(W, b, x) == [i \in 1..Len(W) |-> Max(MatVec(W, x)[i] + b[i], 0)]

(***************************************************************************)
(* ReluLayer.__init__: the convex program                                  *)
(*     minimize ||z - Wtilde x - b||^2  s.t.  z >= 0, Wtilde == W          *)
(* with variables z, Wtilde and parameters W, b, x.                        *)
(***************************************************************************)
\* cp.sum_squares(z - Wtilde @ x - b)
ObjectiveFlipped(s, p) ==
    sum_squares([i \in 1..Len(s.z) |-> s.z[i] + MatVec(s.Wtilde, p.x)[i] - p.b[i]])
Objective(s, p) ==
    sum_squares([i \in 1..Len(s.z) |-> s.z[i] - MatVec(s.Wtilde, p.x)[i] - p.b[i]])

\* [z >= 0, Wtilde == W]
Constraints(s, p) ==
    /\ \A i \in 1..Len(s.z) : s.z[i] >= 0
    /\ s.Wtilde = p.W

\* the order of the parameters and the declared outputs given to CvxpyLayer
ParameterOrder == <<"W", "b", "x">>
VariableOrder == <<"z">>

Abs(a) == IF a >= 0 THEN a ELSE 0 - a

MaxOf(S) == CHOOSE v \in S : \A w \in S : v >= w

\* the values of z the solver searches: a box around 0 that holds every
\* component of Wx + b and of its negation, with a margin of 1
ZBound(p) ==
    LET reach(i) == SumTo([j \in 1..Len(p.x) |-> Abs(p.W[i][j] * p.x[j])], Len(p.x))
                    + Abs(p.b[i])
    IN  1 + MaxOf({reach(i) : i \in 1..Len(p.b)})
ZVals(p) == (0 - ZBound(p))..ZBound(p)

\* the points of the program that satisfy the constraints
Feasible(p) ==
    LET n == Len(p.b)
        m == Len(p.x)
        Ws == {Wt \in Mat(n, m, WVals) : Wt = p.W}
        zs == {z \in Vec(n, ZVals(p)) : \A i \in 1..n : z[i] >= 0}
    IN  {s \in [z : zs, Wtilde : Ws] : Constraints(s, p)}

MinOf(S) == CHOOSE v \in S : \A w \in S : v <= w

\* the optimal points of the program instantiated with parameters p
Optimal(p) ==
    LET F == Feasible(p)
        best == MinOf({Objective(s, p) : s \in F})
    IN  {s \in F : Objective(s, p) = best}

(***************************************************************************)
(* The CvxpyLayer adapter called with a leading batch dimension: one       *)
(* parameter set per batch element, each solved on its own; it returns one *)
(* tensor per declared variable.                                           *)
(***************************************************************************)
Params(args, i) ==
    [W |-> args[1][i], b |-> args[2][i], x |-> args[3][i]]

cvxpy_layer(args) ==
    LET batch == Len(args[3])
        sol(i) == CHOOSE s \in Optimal(Params(args, i)) : TRUE
    IN  [j \in 1..Len(VariableOrder) |-> [i \in 1..batch |-> sol(i).z]]

(***************************************************************************)
(* ReluLayer.call                                                          *)
(***************************************************************************)
\* tf.stack([t for _ in tf.range(batch_size)])
stackShort(t, batch_size) == [i \in 1..(batch_size - 1) |-> t]
stack(t, batch_size) == [i \in 1..batch_size |-> t]

BatchedArgs(self, x) ==
    LET batch_size == shape(x)[1]
    IN  <<stack(self.W, batch_size), stack(self.b, batch_size), x.v>>

\* the adapter refuses parameter values whose batch sizes differ
BatchConsistent(args) == Len(args[1]) = Len(args[3]) /\ Len(args[2]) = Len(args[3])

call(self, x) ==
    IF rank(x) = 2
    THEN LET args == BatchedArgs(self, x)
         IN  IF BatchConsistent(args)
             THEN [status |-> "returned",
                   value  |-> Tensor2(cvxpy_layer(args)[1]),
                   Ws     |-> args[1],
                   bs     |-> args[2]]
             ELSE [status |-> "ValueError",
                   value  |-> None,
                   Ws     |-> args[1],
                   bs     |-> args[2]]
    ELSE \* self.layer is not an attribute of ReluLayer (it is self.cvxpy_layer)
         [status |-> "AttributeError",
          value  |-> None,
          Ws     |-> <<>>,
          bs     |-> <<>>]

\* the inputs of the right feature dimension: one vector (rank 1) ...
VectorInputs(m) == {Tensor1(v) : v \in Vec(m, XVals)}
\* ... or a batch of them (rank 2)
BatchInputs(m) ==
    UNION {{Tensor2(rows) : rows \in [1..n -> Vec(m, XVals)]} : n \in 1..MaxBatch}

NoRet == [status |-> "not called", value |-> None, Ws |-> <<>>, bs |-> <<>>]

(***************************************************************************)
(* SpecLayer: a layer is constructed, then called once.                    *)
(***************************************************************************)
\* ReluLayer.__init__: W is (output_dim, input_dim), b is (output_dim,)
ReluLayer(input_dim, output_dim, W0, b0) ==
    [input_dim |-> input_dim, output_dim |-> output_dim, W |-> W0, b |-> b0]

ConstructedLayers ==
    UNION {{ReluLayer(d[1], d[2], W0, b0) :
                W0 \in Mat(d[2], d[1], WVals), b0 \in Vec(d[2], WVals)} : d \in Dims}

TrainIdle ==
    /\ pc = "idle" /\ k = 0 /\ iter = 0 /\ h = <<>> /\ solves = 0 /\ backwards = 0
    /\ lines = 0 /\ loss = 0 /\ firstLoss = 0 /\ version = <<>> /\ trace = <<>>
    /\ dataset = None /\ raised = FALSE

SeedIdle == rng = <<>> /\ spc = <<>> /\ drawn = <<>>

LayerIdle == layer = None /\ xin = None /\ ret = NoRet

InitLayer ==
    /\ layer \in ConstructedLayers
    /\ xin = None
    /\ ret = NoRet
    /\ TrainIdle
    /\ SeedIdle

\* layer(x) for an input of the layer's feature dimension
Call ==
    /\ ret.status = "not called"
    /\ \/ \E x \in VectorInputs(layer.input_dim) :
              xin' = x /\ ret' = call(layer, x)
       \/ \E x \in BatchInputs(layer.input_dim) :
              xin' = x /\ ret' = call(layer, x)
    /\ UNCHANGED <<layer, trainVars, seedVars>>

NextLayer == Call

SpecLayer == InitLayer /\ [][NextLayer]_vars

(***************************************************************************)
(* The construction cell and the training cell.                            *)
(***************************************************************************)
\* for _ in range(25)
NumIter == 25
\* X = tf.random.normal((300, 20)), Y = tf.random.normal((300, 1))
NumRows == 300
NumFeatures == 20
NumTargets == 1

XShape == <<NumRows, NumFeatures>>
YShape == <<NumRows, NumTargets>>

\* tf.keras.Sequential([ReluLayer(20, 20), ReluLayer(20, 20), Dense(1)])
LayersSwapped ==
    << [name |-> "relu2", type |-> "ReluLayer", input_dim |-> 20, output_dim |-> 20],
       [name |-> "relu1", type |-> "ReluLayer", input_dim |-> 20, output_dim |-> 20],
       [name |-> "dense", type |-> "Dense", input_dim |-> 20, output_dim |-> 1] >>
Layers ==
    << [name |-> "relu1", type |-> "ReluLayer", input_dim |-> 20, output_dim |-> 20],
       [name |-> "relu2", type |-> "ReluLayer", input_dim |-> 20, output_dim |-> 20],
       [name |-> "dense", type |-> "Dense", input_dim |-> 20, output_dim |-> 1] >>

NumLayers == Len(Layers)

\* model.variables: W and b of each ReluLayer, kernel and bias of the Dense layer
LayerVariables(L) ==
    IF L.type = "ReluLayer" THEN {<<L.name, "W">>, <<L.name, "b">>}
    ELSE {<<L.name, "kernel">>, <<L.name, "bias">>}

\* the trainable tensors created by the construction cell
TrainableTensors ==
    { <<"relu1", "W">>, <<"relu1", "b">>, <<"relu2", "W">>, <<"relu2", "b">>,
      <<"dense", "kernel">>, <<"dense", "bias">> }

ReluVariablesOnly == UNION {LayerVariables(Layers[i]) : i \in {1, 2}}
ModelVariables == UNION {LayerVariables(Layers[i]) : i \in 1..NumLayers}

\* the losses printed by the recorded run, in units of 1e-6, rounded down
RecordedLoss ==
    << 1118205, 1113598, 1105730, 1096769, 1084459,
       1069027, 1051261, 1032230, 1012581,  991366,
        965367,  934638,  901583,  869633,  835872,
        801263,  765694,  732059,  700717,  671773,
        647954,  626099,  606175,  591028,  574936 >>

\* the loss levels of a run on arbitrary data
MaxLoss == 2

\* the loss of iteration i (1-based) of the run
LossValuesReversed(i) ==
    IF dataset = "recorded" THEN {RecordedLoss[NumIter + 1 - i]} ELSE 0..MaxLoss
LossValues(i) ==
    IF dataset = "recorded" THEN {RecordedLoss[i]} ELSE 0..MaxLoss

\* the adapter called with a batch of batch_size parameter sets solves one
\* program per batch element, and its backward pass differentiates each of them
AdapterSolves(batch_size) == batch_size
AdapterBackwards(batch_size) == batch_size

\* ReluLayer.call on an activation of shape s: the batched path solves one
\* program per row; the other path fails on self.layer
CallSolvesOnce(L, s) == IF Len(s) = 2 THEN AdapterSolves(1) ELSE 0
CallSolves(L, s) == IF Len(s) = 2 THEN AdapterSolves(s[1]) ELSE 0
CallOk(L, s) == Len(s) = 2 /\ s[2] = L.input_dim
OutShape(L, s) == <<s[1], L.output_dim>>

\* differentiating a ReluLayer goes through the adapter, a Dense layer does not
BackwardCalls(L, s) == IF L.type = "ReluLayer" THEN AdapterBackwards(s[1]) ELSE 0

\* the order in which tape.gradient visits the layers: last layer first
BackwardStart == NumLayers
BackwardNext(i) == i - 1
BackwardEnd(i) == i = 1

Step(name) == <<name, iter + 1>>

InitTrainWith(d) ==
    /\ dataset = d
    /\ pc = "forward"
    /\ k = 1
    /\ iter = 0
    /\ h = XShape
    /\ solves = 0
    /\ backwards = 0
    /\ lines = 0
    /\ loss = 0
    /\ firstLoss = 0
    /\ version = [t \in TrainableTensors |-> 0]
    /\ trace = <<>>
    /\ raised = FALSE
    /\ LayerIdle
    /\ SeedIdle

Init == InitTrainWith("any")
InitRecorded == InitTrainWith("recorded")

\* an exception leaves the for loop: nothing catches it
RaiseAndContinue ==
    /\ raised' = TRUE
    /\ pc' = "forward"
    /\ k' = 1
    /\ h' = XShape
    /\ trace' = <<>>
    /\ UNCHANGED <<iter, solves, backwards, lines, loss, firstLoss, version,
                   dataset, layerVars, seedVars>>
Raise ==
    /\ raised' = TRUE
    /\ pc' = "failed"
    /\ UNCHANGED <<k, iter, h, solves, backwards, lines, loss, firstLoss,
                   version, trace, dataset, layerVars, seedVars>>

\* model(X): the layers run one after the other, each on the previous output
Forward ==
    /\ pc = "forward"
    /\ LET L == Layers[k]
       IN  IF L.type = "ReluLayer" /\ ~CallOk(L, h)
           THEN Raise
           ELSE /\ solves' = solves + (IF L.type = "ReluLayer" THEN CallSolves(L, h) ELSE 0)
                /\ h' = OutShape(L, h)
                /\ trace' = (IF k = 1 THEN <<>> ELSE trace) \o <<Step("forward " \o L.name)>>
                /\ IF k < NumLayers
                   THEN k' = k + 1 /\ pc' = "forward"
                   ELSE k' = k /\ pc' = "loss"
                /\ UNCHANGED <<iter, backwards, lines, loss, firstLoss, version,
                               dataset, raised, layerVars, seedVars>>

\* the solver fails on a row of the batch
SolveFails ==
    /\ pc = "forward"
    /\ Layers[k].type = "ReluLayer"
    /\ Raise

\* loss = (1 / X.shape[0]) * tf.math.reduce_sum((Y - model(X))**2)
ComputeLoss ==
    /\ pc = "loss"
    /\ IF h # YShape
       THEN Raise
       ELSE /\ \E v \in LossValues(iter + 1) : loss' = v
            /\ pc' = "print"
            /\ trace' = Append(trace, Step("loss"))
            /\ UNCHANGED <<k, iter, h, solves, backwards, lines, firstLoss, version,
                           dataset, raised, layerVars, seedVars>>

\* print(loss)
PrintLoss ==
    /\ pc = "print"
    /\ lines' = lines + 1
    /\ firstLoss' = (IF lines = 0 THEN loss ELSE firstLoss)
    /\ pc' = "backward"
    /\ k' = BackwardStart
    /\ trace' = Append(trace, Step("print"))
    /\ UNCHANGED <<iter, h, solves, backwards, loss, version, dataset,
                   raised, layerVars, seedVars>>

\* tape.gradient(loss, model.variables), one layer at a time
Backward ==
    /\ pc = "backward"
    /\ backwards' = backwards + BackwardCalls(Layers[k], h)
    /\ trace' = Append(trace, Step("backward " \o Layers[k].name))
    /\ IF BackwardEnd(k)
       THEN k' = k /\ pc' = "apply"
       ELSE k' = BackwardNext(k) /\ pc' = "backward"
    /\ UNCHANGED <<iter, h, solves, lines, loss, firstLoss, version, dataset,
                   raised, layerVars, seedVars>>

\* the differentiation through a ReluLayer fails
BackwardFails ==
    /\ pc = "backward"
    /\ Layers[k].type = "ReluLayer"
    /\ Raise

\* opt.apply_gradients(zip(grads, model.variables)), then the next iteration
ApplyGradientsEarlyStop ==
    /\ pc = "apply"
    /\ version' = [t \in DOMAIN version |->
                      IF t \in ModelVariables THEN version[t] + 1 ELSE version[t]]
    /\ iter' = iter + 1
    /\ trace' = Append(trace, Step("apply"))
    /\ k' = 1
    /\ h' = XShape
    /\ pc' = (IF iter + 1 < NumIter /\ loss > 0 THEN "forward" ELSE "done")
    /\ UNCHANGED <<solves, backwards, lines, loss, firstLoss, dataset,
                   raised, layerVars, seedVars>>
ApplyGradients ==
    /\ pc = "apply"
    /\ version' = [t \in DOMAIN version |->
                      IF t \in ModelVariables THEN version[t] + 1 ELSE version[t]]
    /\ iter' = iter + 1
    /\ trace' = Append(trace, Step("apply"))
    /\ k' = 1
    /\ h' = XShape
    /\ pc' = (IF iter + 1 < NumIter THEN "forward" ELSE "done")
    /\ UNCHANGED <<solves, backwards, lines, loss, firstLoss, dataset,
                   raised, layerVars, seedVars>>

Next ==
    \/ Forward
    \/ SolveFails
    \/ ComputeLoss
    \/ PrintLoss
    \/ Backward
    \/ BackwardFails
    \/ ApplyGradients

Spec == Init /\ [][Next]_vars
\* the cell runs in one thread, statement after statement: it does not pause
SpecFair == Init /\ [][Next]_vars /\ WF_vars(Next)
SpecRecorded == InitRecorded /\ [][Next]_vars

(***************************************************************************)
(* SpecSeed: the construction cell executed by two runs of the notebook.   *)
(* TensorFlow derives the seed of a random op that is given none from the  *)
(* global seed and a counter of the ops created since the seed was set;    *)
(* with no global seed the op draws from fresh entropy.                    *)
(***************************************************************************)
Runs == {1, 2}

\* the random ops a process may have created before the cell runs
MaxPriorOps == 3
\* the distinct outcomes of a draw from fresh entropy
MaxEntropy == 2

Unset == 0 - 1

\* the statements of the cell that touch the generator, in program order
CellStatements ==
    <<"set_seed", "relu1.W", "relu1.b", "relu2.W", "relu2.b", "X", "Y">>

InitialTensors == {"relu1.W", "relu1.b", "relu2.W", "relu2.b"}
DataTensors == {"X", "Y"}

NotDrawn == [seeded |-> FALSE, seed |-> Unset, op |-> Unset]

\* tf.random.set_seed(0): sets the global seed and restarts the op counter
set_seed_keep_counter(g, seed) == [global |-> seed, ops |-> g.ops]
set_seed(g, seed) == [global |-> seed, ops |-> 0]

\* tf.random.normal(shape) with no seed argument: the values it can return
random_normal(g) ==
    IF g.global = Unset
    THEN {[seeded |-> FALSE, seed |-> e, op |-> g.ops] : e \in 1..MaxEntropy}
    ELSE {[seeded |-> TRUE, seed |-> g.global, op |-> g.ops]}

InitSeed ==
    /\ rng \in [Runs -> [global : {Unset, 0}, ops : 0..MaxPriorOps]]
    /\ spc = [r \in Runs |-> 0]
    /\ drawn = [r \in Runs |-> [t \in InitialTensors \cup DataTensors |-> NotDrawn]]
    /\ LayerIdle
    /\ TrainIdle

\* tf.random.set_seed(0)
SetSeed(r) ==
    /\ spc[r] < Len(CellStatements)
    /\ CellStatements[spc[r] + 1] = "set_seed"
    /\ rng' = [rng EXCEPT ![r] = set_seed(rng[r], 0)]
    /\ spc' = [spc EXCEPT ![r] = spc[r] + 1]
    /\ UNCHANGED <<drawn, layerVars, trainVars>>

\* the next tf.random.normal of the cell: W, b of a ReluLayer, then X, then Y
Draw(r) ==
    /\ spc[r] < Len(CellStatements)
    /\ CellStatements[spc[r] + 1] # "set_seed"
    /\ \E d \in random_normal(rng[r]) :
          drawn' = [drawn EXCEPT ![r][CellStatements[spc[r] + 1]] = d]
    /\ rng' = [rng EXCEPT ![r].ops = rng[r].ops + 1]
    /\ spc' = [spc EXCEPT ![r] = spc[r] + 1]
    /\ UNCHANGED <<layerVars, trainVars>>

NextSeed == \E r \in Runs : SetSeed(r) \/ Draw(r)

SpecSeed == InitSeed /\ [][NextSeed]_vars

(***************************************************************************)
(* Properties.                                                             *)
(***************************************************************************)
Called == ret.status # "not called"

\* the feature vectors of the input of the call
Rows(x) == IF rank(x) = 1 THEN <<x.v>> ELSE x.v

\* the parameters of the program for row i of the input
RowParams(i) == [W |-> layer.W, b |-> layer.b, x |-> Rows(xin)[i]]

\* C1 (SpecLayer): a layer constructed with input_dim = m and output_dim = n
\* returns a value of shape (n,) for an input of shape (m,) and a value of
\* shape (batch, n) for an input of shape (batch, m).
C1_ShapeContract ==
    Called =>
        /\ ret.status = "returned"
        /\ shape(ret.value) = IF rank(xin) = 1
                              THEN <<layer.output_dim>>
                              ELSE <<shape(xin)[1], layer.output_dim>>

C3_BatchInvariance ==
    (Called /\ rank(xin) = 2) =>
        LET batch_size == Len(xin.v)
        IN  /\ ret.status = "returned"
            /\ Len(ret.Ws) = batch_size
            /\ Len(ret.bs) = batch_size
            /\ \A i \in 1..batch_size :
                  /\ ret.Ws[i] = layer.W
                  /\ ret.bs[i] = layer.b
                  /\ ret.value.v[i] = Relu(layer.W, layer.b, xin.v[i])
                  /\ ret.value.v[i] = call(layer, Tensor2(<<xin.v[i]>>)).value.v[1]

\* a batch of at least two different rows with different outputs was returned
C3_Witness ==
    /\ ret.status = "returned"
    /\ Len(xin.v) >= 2
    /\ xin.v[1] # xin.v[2]
    /\ ret.value.v[1] # ret.value.v[2]

\* C4 (Spec): a complete run has solved exactly 15000 programs and made
\* exactly 15000 backward calls: 300 of each per ReluLayer per iteration.
C4_SolveCount ==
    /\ pc = "done" => solves = 15000 /\ backwards = 15000
    /\ (~raised /\ pc = "forward" /\ k = 1) =>
           solves = iter * 2 * NumRows /\ backwards = iter * 2 * NumRows
    /\ (~raised /\ pc = "apply") =>
           solves = (iter + 1) * 2 * NumRows /\ backwards = (iter + 1) * 2 * NumRows

C4_Witness == pc = "done" /\ solves = 15000 /\ backwards = 15000

\* C5 (SpecFair): every run ends, in a failure or done; it is done exactly
\* when 25 iterations are complete, whatever the losses were, and has then
\* printed exactly 25 lines: one line per iteration.
C5_Terminates ==
    /\ <>(pc = "done" \/ raised)
    /\ [](/\ iter <= NumIter
          /\ (pc = "done") <=> (iter = NumIter)
          /\ pc = "done" => lines = 25 /\ iter = 25
          /\ pc \in {"forward", "loss", "print"} => lines = iter
          /\ pc \in {"backward", "apply"} => lines = iter + 1
          /\ ~raised => pc \in {"forward", "loss", "print", "backward", "apply", "done"})

\* the run finished although the loss went up from the first to the last line
C5_Witness == pc = "done" /\ lines = 25 /\ firstLoss = 0 /\ loss = MaxLoss

C8_OnlyOptimizerMutates ==
    /\ [][version' # version =>
            /\ pc = "apply"
            /\ iter' = iter + 1
            /\ \A t \in TrainableTensors : version'[t] = version[t] + 1]_vars
    /\ [](\A t \in TrainableTensors : version[t] = iter)

C8_Witness ==
    /\ iter = 3
    /\ pc = "apply"
    /\ \A t \in TrainableTensors : version[t] = 3

\* C9 (Spec): once a step has raised, the run is in the failed state and no
\* further step is taken: no retry, no update of that iteration (every
\* trainable tensor has the updates of the completed iterations only), no later
\* iteration and no further printed loss.
C9_FailureStops ==
    /\ [](raised =>
            /\ pc = "failed"
            /\ iter < NumIter
            /\ \A t \in TrainableTensors : version[t] = iter
            /\ lines <= iter + 1)
    /\ [][~raised]_vars

\* the backward pass of the third iteration failed after its loss was printed
C9_Witness == raised /\ pc = "failed" /\ iter = 2 /\ lines = 3 /\ k = 1

\* the steps of one iteration, in the order the claim gives
IterationOrder ==
    << "forward relu1", "forward relu2", "forward dense", "loss", "print",
       "backward dense", "backward relu2", "backward relu1", "apply" >>

\* C10 (Spec): the steps of an iteration happen in the order relu1, relu2,
\* dense, loss, print, backward of dense, relu2, relu1, update; and every step
\* of an iteration happens when the updates of all earlier iterations, and
\* only those, have been applied.
C10_Ordered ==
    /\ Len(trace) <= Len(IterationOrder)
    /\ \A i \in 1..Len(trace) : trace[i] = <<IterationOrder[i], trace[1][2]>>
    /\ trace # <<>> =>
          LET cur == trace[1][2]
              updated == trace[Len(trace)][1] = "apply"
          IN  /\ iter = (IF updated THEN cur ELSE cur - 1)
              /\ \A t \in TrainableTensors : version[t] = iter

\* the second iteration ran all its steps
C10_Witness == Len(trace) = Len(IterationOrder) /\ iter = 2 /\ trace[1][2] = 2

TensorsOf(r) == [t \in InitialTensors \cup DataTensors |-> drawn[r][t]]

\* C7 as stated (SpecSeed): the seed covers the initial W and b only; X and Y
\* are drawn unseeded.
C7_DataNotSeeded ==
    \A r \in Runs :
        /\ \A t \in InitialTensors : drawn[r][t] # NotDrawn => drawn[r][t].seeded
        /\ \A t \in DataTensors : drawn[r][t] # NotDrawn => ~drawn[r][t].seeded

\* C7 amended (SpecSeed): two runs that have executed the cell agree on the
\* initial W and b of both layers and on X and Y, all drawn under seed 0.
C7_SeedCoversData ==
    (\A r \in Runs : spc[r] = Len(CellStatements)) =>
        /\ TensorsOf(1) = TensorsOf(2)
        /\ \A t \in InitialTensors \cup DataTensors :
              drawn[1][t].seeded /\ drawn[1][t].seed = 0

\* both runs finished, having started from different generator states
C7_Witness ==
    /\ \A r \in Runs : spc[r] = Len(CellStatements)
    /\ drawn[1]["X"].seeded
    /\ drawn[1]["X"] = drawn[2]["X"]
    /\ drawn[1]["X"] # drawn[1]["Y"]

====
